---- MODULE Spec2Model ----
(***************************************************************************)
(* Interrupt-driven I2C slave: the event and error interrupt handlers      *)
(* (interrupts.rs), the bridge between ISR and task (bridge.rs), the two   *)
(* buffers, the TX lock, the state holder and the task-side facade         *)
(* (slave.rs).                                                             *)
(*                                                                         *)
(* A handler is sequential code working on the bridge and the peripheral   *)
(* registers.  It is modelled as a function on a context record `c` that   *)
(* holds every field the handler can touch; each primitive of the bridge   *)
(* is an operator from context to context, and the handler is their        *)
(* composition in program order.  The action commits the final context.    *)
(***************************************************************************)
EXTENDS Integers, Sequences, FiniteSets, TLC

\* const generics of Bridge<T, CHSIZE, TXBUFSIZE, RXBUFSIZE>
CHSIZE == 4
TXBUFSIZE == 2
RXBUFSIZE == 2

\* bridge.rs
STATES_HISTORY_SIZE == 5
EVENTS_HISTORY_SIZE == 5

\* bounds of the exploration: the largest byte value on the bus, and the
\* number of handler invocations followed under arbitrary flags (MaxIsr) and
\* under the flags of a paced bus (MaxBusIsr)
MaxByte == 0
MaxIsr == 3
MaxBusIsr == 5
\* the number of operations of the task followed, under arbitrary flags and
\* on the paced bus
MaxTask == 2
MaxBusTask == 3
\* the largest byte value handed to the two buffers when they are exercised
\* on their own
MaxUnitByte == 2

VARIABLES
    state,           \* StateHolder.state
    history,         \* StateHolder.history
    events_history,  \* Bridge.events_history
    channel,         \* Bridge.channel
    pe,              \* CR1.PE
    itbufen,         \* CR2.ITBUFEN
    itevten,         \* CR2.ITEVTEN
    send_buffer,     \* Bridge.send_buffer : [buf, pos, end]
    receive_buffer,  \* Bridge.receive_buffer : [buf, size]
    wire,            \* bytes written to DR since the last address match
    taskpc,          \* position of the task: "run", or inside write(); for
                     \* the task of the example also "answer" (it has
                     \* dequeued TxEmpty and is to call write), "take" (it has
                     \* dequeued Received and is to call read), "done"
    panicked,        \* the program has aborted
    nisr,            \* number of handler invocations so far
    ntask,           \* number of operations the task has started so far
    enq,             \* every entry ever sent into the channel, in order
    deq,             \* every result listen() has returned, in order
    txlog,           \* the TxEmpty events since the last address match
    txempty_pending, \* a TxEmpty was emitted and no write() has completed since
    mode,            \* "any": arbitrary flags; "bus": a paced bus, logs kept;
                     \* "rx", "tx": one buffer on its own; "scenario";
                     \* "burst": one invocation of the event handler;
                     \* "task": a paced bus and the task of the example
    master,          \* the scenario played and the steps of it still to come
    rxlog,           \* bytes appended to the receive buffer since the last
                     \* successful read
    txblock,         \* the block the send buffer took at the last write
    txyield,         \* the bytes next() has yielded since the last write
    inv              \* record of the last operation (inputs and effects)

vars == <<state, history, events_history, channel, pe, itbufen, itevten,
          send_buffer, receive_buffer, wire, taskpc, panicked, nisr, ntask, enq, deq,
          txlog, txempty_pending, mode, master, rxlog, txblock, txyield, inv>>

----------------------------------------------------------------------------
\* lib.rs: the data types

State == {"Idle", "TxInitial", "TxRepeated", "Rx", "Nack"}

Byte == 0 .. MaxByte

\* content of a MaybeUninit cell that was never written
Uninit == "uninit"

Addr(tx, gencall) == [tag |-> "Addr", tx |-> tx, gencall |-> gencall]
Sent(sent) == [tag |-> "Sent", sent |-> sent]
Stop == [tag |-> "Stop"]
Received(size, write) == [tag |-> "Received", size |-> size, write |-> write]
TxEmpty(initial) == [tag |-> "TxEmpty", initial |-> initial]

ProtocolError == {"RxneAndTxne", "AddrDuringTransmission", "RxneWhileNotReceiving",
                  "TxeWhileNotTranseiving", "StopDuringTransmission",
                  "NackWhileNotTranseiving"}
I2CError == {"ArbitrationLoss", "Overrun", "PecError", "Timeout", "SmBusAlert"}
Protocol(e) == <<"Protocol", e>>
I2C(e) == <<"I2C", e>>
ReceiveBufferFull == <<"ReceiveBufferFull">>

\* Result<Event, Error>
Ok(event) == [ok |-> TRUE, event |-> event]
Err(reason) == [ok |-> FALSE, reason |-> reason]

----------------------------------------------------------------------------
\* send_buffer.rs

SendBuffer_new == [buf |-> [i \in 1 .. TXBUFSIZE |-> Uninit], pos |-> 0, end |-> 0]

SendBuffer_is_empty(sb) == sb.end = sb.pos

SendBuffer_bytes_sent(sb) == sb.pos

\* reset moving pos alone
SendBuffer_reset_pos_only(sb) == [sb EXCEPT !.pos = 0]

SendBuffer_reset(sb) == [sb EXCEPT !.pos = 0, !.end = 0]

Min(a, b) == IF a <= b THEN a ELSE b

\* write() panics on an oversize block and on a buffer that is not empty
SendBuffer_write_panics(sb, src) ==
    Len(src) > TXBUFSIZE \/ ~SendBuffer_is_empty(sb)

SendBuffer_write(sb, src) ==
    LET take_idx == Min(Len(src), TXBUFSIZE)
    IN [buf |-> [i \in 1 .. TXBUFSIZE |-> IF i <= take_idx THEN src[i] ELSE sb.buf[i]],
        pos |-> 0,
        end |-> take_idx]

SendBuffer_write_remainder(src) ==
    LET take_idx == Min(Len(src), TXBUFSIZE)
    IN SubSeq(src, take_idx + 1, Len(src))

\* next yielding the last byte of the block
SendBuffer_next_last(sb) ==
    IF SendBuffer_is_empty(sb)
    THEN <<sb, <<>>>>
    ELSE <<[sb EXCEPT !.pos = sb.pos + 1], <<sb.buf[sb.end]>>>>

\* Iterator::next : <<buffer after, item>>, item = <<>> for None, <<b>> for Some(b)
SendBuffer_next(sb) ==
    IF SendBuffer_is_empty(sb)
    THEN <<sb, <<>>>>
    ELSE <<[sb EXCEPT !.pos = sb.pos + 1], <<sb.buf[sb.pos + 1]>>>>

----------------------------------------------------------------------------
\* receive_buffer.rs

ReceiveBuffer_new == [buf |-> [i \in 1 .. RXBUFSIZE |-> Uninit], size |-> 0]

\* write_byte refusing one byte too late
ReceiveBuffer_write_byte_late(rb, byte) ==
    IF rb.size > RXBUFSIZE
    THEN <<rb, FALSE>>
    ELSE <<[buf |-> [rb.buf EXCEPT ![rb.size + 1] = byte], size |-> rb.size + 1], TRUE>>

\* write_byte : <<buffer after, is_ok>>
ReceiveBuffer_write_byte(rb, byte) ==
    IF rb.size = RXBUFSIZE
    THEN <<rb, FALSE>>
    ELSE <<[buf |-> [rb.buf EXCEPT ![rb.size + 1] = byte], size |-> rb.size + 1], TRUE>>

ReceiveBuffer_get_size(rb) == rb.size

\* read copying the bytes newest first
ReceiveBuffer_read_reversed(rb, dst) ==
    IF Len(dst) < rb.size
    THEN <<FALSE, rb.size, dst>>
    ELSE <<TRUE, rb.size,
           [i \in 1 .. Len(dst) |-> IF i <= rb.size THEN rb.buf[rb.size + 1 - i]
                                                   ELSE dst[i]]>>

\* read(dst) : <<is_ok, value, dst after>>
ReceiveBuffer_read(rb, dst) ==
    IF Len(dst) < rb.size
    THEN <<FALSE, rb.size, dst>>
    ELSE <<TRUE, rb.size,
           [i \in 1 .. Len(dst) |-> IF i <= rb.size THEN rb.buf[i] ELSE dst[i]]>>

ReceiveBuffer_reset(rb) == [rb EXCEPT !.size = 0]

----------------------------------------------------------------------------
\* The context a handler runs on.  ret: the handler has returned early.
\* emitted, trans, cleared, popped, sr2read, drread record what the
\* invocation did, for the properties below.

Context ==
    [state |-> state, history |-> history, events_history |-> events_history,
     channel |-> channel, pe |-> pe, itbufen |-> itbufen, itevten |-> itevten,
     send_buffer |-> send_buffer, receive_buffer |-> receive_buffer,
     wire |-> wire, txlog |-> txlog, panicked |-> FALSE, ret |-> FALSE,
     emitted |-> <<>>, trans |-> <<>>, cleared |-> {}, popped |-> <<>>,
     stored |-> <<>>, sr2read |-> FALSE, drread |-> FALSE, peset |-> FALSE]

\* the handler is still executing: it neither returned nor aborted
Live(c) == ~c.ret /\ ~c.panicked

\* a failure that does not end the invocation
Return_goes_on(c) == c

Return(c) == [c EXCEPT !.ret = TRUE]

----------------------------------------------------------------------------
\* state_holder.rs

add_state_in_history(h, s) ==
    Append(IF Len(h) = STATES_HISTORY_SIZE THEN Tail(h) ELSE h, s)

set_state(c, s) ==
    [c EXCEPT !.history = add_state_in_history(c.history, s),
              !.state = s,
              !.trans = Append(c.trans, <<c.state, s>>)]

----------------------------------------------------------------------------
\* tx_lock.rs

lock_tx(c, lock_type) ==
    [c EXCEPT !.itbufen = FALSE, !.itevten = (lock_type = "TxOnly")]

\* unlock enabling the event interrupt alone
unlock_tx_event_only(c) ==
    [c EXCEPT !.itevten = TRUE]

unlock_tx(c) ==
    [c EXCEPT !.itbufen = TRUE, !.itevten = TRUE]

----------------------------------------------------------------------------
\* bridge.rs, the ISR side

\* send_channel dropping the entry when the channel is full
send_channel_drops(c, result) ==
    IF Len(c.channel) >= CHSIZE
    THEN c
    ELSE [c EXCEPT !.channel = Append(c.channel, result),
                   !.emitted = Append(c.emitted, result)]

\* try_send(..).expect("Channel is full")
send_channel(c, result) ==
    IF Len(c.channel) >= CHSIZE
    THEN [c EXCEPT !.panicked = TRUE]
    ELSE [c EXCEPT !.channel = Append(c.channel, result),
                   !.emitted = Append(c.emitted, result)]

disable_peripheral(c) == [c EXCEPT !.pe = FALSE]

\* fail discarding the bytes not yet sent
fail_resets_txbuf(c, reason) ==
    send_channel(disable_peripheral([c EXCEPT !.send_buffer = SendBuffer_reset(c.send_buffer)]),
                 Err(reason))

fail(c, reason) == send_channel(disable_peripheral(c), Err(reason))

push_event(h, event) ==
    Append(IF Len(h) = EVENTS_HISTORY_SIZE THEN Tail(h) ELSE h, event)

notify(c, event) ==
    send_channel([c EXCEPT !.events_history = push_event(c.events_history, event)],
                 Ok(event))

\* get_rxbuf_size reporting the capacity
get_rxbuf_capacity(c) == RXBUFSIZE

get_rxbuf_size(c) == ReceiveBuffer_get_size(c.receive_buffer)

\* <<context after, is_ok>>
write_rxbuf_byte(c, byte) ==
    LET r == ReceiveBuffer_write_byte(c.receive_buffer, byte)
    IN <<[c EXCEPT !.receive_buffer = r[1],
                   !.stored = IF r[2] THEN Append(c.stored, byte) ELSE c.stored], r[2]>>

\* <<context after, item>>
pop_txbuf_byte(c) ==
    LET r == SendBuffer_next(c.send_buffer)
    IN <<[c EXCEPT !.send_buffer = r[1], !.popped = c.popped \o r[2]], r[2]>>

\* reset_txbuf reporting the count and keeping the bytes
reset_txbuf_keeps(c) == <<c, SendBuffer_bytes_sent(c.send_buffer)>>

\* <<context after, value returned>>
reset_txbuf(c) ==
    LET bytes_left == SendBuffer_bytes_sent(c.send_buffer)
    IN <<[c EXCEPT !.send_buffer = SendBuffer_reset(c.send_buffer)], bytes_left>>

\* T::regs().dr().write(|w| w.set_dr(byte))
write_dr(c, byte) == [c EXCEPT !.wire = Append(c.wire, byte)]

\* regs.sr1().modify(|w| w.set_<flag>(false))
clear_flag(c, name) == [c EXCEPT !.cleared = c.cleared \cup {name}]

----------------------------------------------------------------------------
\* interrupts.rs: handle_event_interrupt, one operator per decoded flag, in
\* program order.  sr1 is the value read once on entry.

EventFlags == [txe : BOOLEAN, rxne : BOOLEAN, addr : BOOLEAN, btf : BOOLEAN,
               stopf : BOOLEAN]
Sr2 == [tra : BOOLEAN, gencall : BOOLEAN]

\* remembers a TxEmpty with the number of bytes put on the wire before it
log_txempty(c, initial) ==
    [c EXCEPT !.txlog = Append(c.txlog, [initial |-> initial, wire |-> Len(c.wire)])]

ev_rxne_and_txne(c, sr1) ==
    IF sr1.txe /\ sr1.rxne
    THEN Return(fail(c, Protocol("RxneAndTxne")))
    ELSE c

\* ev_addr announcing the address before the bytes of the write that ended
ev_addr_addr_first(c, sr1, sr2) ==
    IF ~Live(c) \/ ~sr1.addr THEN c
    ELSE IF c.state \in {"Idle", "Rx", "Nack"}
    THEN LET prev == c.state
             transmission == sr2.tra
             general_call == sr2.gencall
             c0 == [c EXCEPT !.sr2read = TRUE, !.wire = <<>>, !.txlog = <<>>]
             c1 == set_state(c0, IF transmission THEN "TxInitial" ELSE "Rx")
             c2 == notify(c1, Addr(transmission, general_call))
         IN IF c2.panicked \/ prev # "Rx" THEN c2
            ELSE notify(c2, Received(get_rxbuf_size(c2), transmission))
    ELSE Return(fail(c, Protocol("AddrDuringTransmission")))

ev_addr(c, sr1, sr2) ==
    IF ~Live(c) \/ ~sr1.addr THEN c
    ELSE IF c.state \in {"Idle", "Rx", "Nack"}
    THEN LET prev == c.state
             transmission == sr2.tra
             general_call == sr2.gencall
             c0 == [c EXCEPT !.sr2read = TRUE, !.wire = <<>>, !.txlog = <<>>]
             c1 == set_state(c0, IF transmission THEN "TxInitial" ELSE "Rx")
             c2 == IF prev = "Rx"
                   THEN notify(c1, Received(get_rxbuf_size(c1), transmission))
                   ELSE c1
         IN IF c2.panicked THEN c2
            ELSE notify(c2, Addr(transmission, general_call))
    ELSE Return(fail(c, Protocol("AddrDuringTransmission")))

ev_rxne(c, sr1, byte) ==
    IF ~Live(c) \/ ~sr1.rxne THEN c
    ELSE IF c.state = "Rx"
    THEN LET r == write_rxbuf_byte([c EXCEPT !.drread = TRUE], byte)
         IN IF r[2] THEN r[1] ELSE Return(fail(r[1], ReceiveBufferFull))
    ELSE Return(fail(c, Protocol("RxneWhileNotReceiving")))

\* ev_txe asking for bytes without locking TX
ev_txe_unlocked(c, sr1) ==
    IF ~Live(c) \/ ~sr1.txe THEN c
    ELSE IF c.state \in {"TxInitial", "TxRepeated"}
    THEN LET initial == c.state = "TxInitial"
         IN IF initial \/ sr1.btf
            THEN LET r == pop_txbuf_byte(c)
                 IN IF r[2] # <<>>
                    THEN LET c1 == write_dr(r[1], r[2][1])
                         IN IF initial THEN set_state(c1, "TxRepeated") ELSE c1
                    ELSE notify(log_txempty(r[1], initial), TxEmpty(initial))
            ELSE lock_tx(c, "TxOnly")
    ELSE Return(fail(c, Protocol("TxeWhileNotTranseiving")))

\* ev_txe staying in TxInitial after the first byte
ev_txe_stays_initial(c, sr1) ==
    IF ~Live(c) \/ ~sr1.txe THEN c
    ELSE IF c.state \in {"TxInitial", "TxRepeated"}
    THEN LET initial == c.state = "TxInitial"
         IN IF initial \/ sr1.btf
            THEN LET r == pop_txbuf_byte(c)
                 IN IF r[2] # <<>>
                    THEN write_dr(r[1], r[2][1])
                    ELSE notify(lock_tx(log_txempty(r[1], initial), "TxAndBtf"),
                                TxEmpty(initial))
            ELSE lock_tx(c, "TxOnly")
    ELSE Return(fail(c, Protocol("TxeWhileNotTranseiving")))

ev_txe(c, sr1) ==
    IF ~Live(c) \/ ~sr1.txe THEN c
    ELSE IF c.state \in {"TxInitial", "TxRepeated"}
    THEN LET initial == c.state = "TxInitial"
         IN IF initial \/ sr1.btf
            THEN LET r == pop_txbuf_byte(c)
                 IN IF r[2] # <<>>
                    THEN LET c1 == write_dr(r[1], r[2][1])
                         IN IF initial THEN set_state(c1, "TxRepeated") ELSE c1
                    ELSE notify(lock_tx(log_txempty(r[1], initial), "TxAndBtf"),
                                TxEmpty(initial))
            ELSE lock_tx(c, "TxOnly")
    ELSE Return(fail(c, Protocol("TxeWhileNotTranseiving")))

\* ev_stopf re-enabling the peripheral after the failure instead of before
ev_stopf_pe_last(c, sr1) ==
    IF ~Live(c) \/ ~sr1.stopf THEN c
    ELSE LET prev == c.state
         IN IF prev \in {"Idle", "Rx", "Nack"}
            THEN LET c0 == [c EXCEPT !.pe = TRUE, !.peset = TRUE]
                     c1 == IF prev = "Rx"
                           THEN notify(c0, Received(get_rxbuf_size(c0), FALSE))
                           ELSE c0
                 IN IF c1.panicked \/ prev = "Idle" THEN c1
                    ELSE notify(set_state(c1, "Idle"), Stop)
            ELSE LET c0 == fail(c, Protocol("StopDuringTransmission"))
                 IN Return([c0 EXCEPT !.pe = TRUE, !.peset = TRUE])

ev_stopf(c, sr1) ==
    IF ~Live(c) \/ ~sr1.stopf THEN c
    ELSE LET c0 == [c EXCEPT !.pe = TRUE, !.peset = TRUE]
             prev == c0.state
         IN IF prev \in {"Idle", "Rx", "Nack"}
            THEN LET c1 == IF prev = "Rx"
                           THEN notify(c0, Received(get_rxbuf_size(c0), FALSE))
                           ELSE c0
                 IN IF c1.panicked \/ prev = "Idle" THEN c1
                    ELSE notify(set_state(c1, "Idle"), Stop)
            ELSE Return(fail(c0, Protocol("StopDuringTransmission")))

\* SR1 with exactly the flags of S set
EventSr1(S) ==
    [txe |-> "txe" \in S, rxne |-> "rxne" \in S, addr |-> "addr" \in S,
     btf |-> "btf" \in S, stopf |-> "stopf" \in S]

\* what a paced bus shows the event handler: one condition at a time, TXE
\* together with the address match of a read or with BTF
BusEventFlags ==
    {EventSr1(S) : S \in {{"addr"}, {"addr", "txe"}, {"rxne"}, {"txe"}, {"txe", "btf"},
                          {"stopf"}}}

handle_event_interrupt(c, sr1, sr2, byte) ==
    ev_stopf(ev_txe(ev_rxne(ev_addr(ev_rxne_and_txne(c, sr1), sr1, sr2),
                            sr1, byte), sr1), sr1)

----------------------------------------------------------------------------
\* interrupts.rs: handle_error_interrupt

ErrorFlags == [af : BOOLEAN, berr : BOOLEAN, arlo : BOOLEAN, ovr : BOOLEAN,
               pecerr : BOOLEAN, timeout : BOOLEAN, alert : BOOLEAN]

ErrorSr1(S) ==
    [af |-> "af" \in S, berr |-> "berr" \in S, arlo |-> "arlo" \in S,
     ovr |-> "ovr" \in S, pecerr |-> "pecerr" \in S, timeout |-> "timeout" \in S,
     alert |-> "alert" \in S]

\* one error condition at a time
BusErrorFlags ==
    {ErrorSr1({f}) : f \in {"af", "berr", "arlo", "ovr", "pecerr", "timeout", "alert"}}

\* er_af taking a NACK for the end of the transaction
er_af_to_idle(c, sr1) ==
    IF ~sr1.af THEN c
    ELSE LET c0 == clear_flag(c, "af")
         IN IF c0.state \in {"TxInitial", "TxRepeated"}
            THEN LET c1 == set_state(c0, "Idle")
                     r == reset_txbuf(c1)
                 IN notify(r[1], Sent(r[2]))
            ELSE Return(fail(c0, Protocol("NackWhileNotTranseiving")))

er_af(c, sr1) ==
    IF ~sr1.af THEN c
    ELSE LET c0 == clear_flag(c, "af")
         IN IF c0.state \in {"TxInitial", "TxRepeated"}
            THEN LET c1 == set_state(c0, "Nack")
                     r == reset_txbuf(c1)
                 IN notify(r[1], Sent(r[2]))
            ELSE Return(fail(c0, Protocol("NackWhileNotTranseiving")))

\* poly_set_error! failing in its NONE arm as well
poly_set_error_none_fails(c, err) == fail(c, I2C(err))

\* poly_set_error!: fail, and go on with the next flag
poly_set_error(c, err) ==
    IF err = "NONE" THEN c ELSE fail(c, I2C(err))

\* one expansion of handle_errors!
handle_error(c, sr1, name, err) ==
    IF ~Live(c) \/ ~sr1[name] THEN c
    ELSE poly_set_error(clear_flag(c, name), err)

handle_error_interrupt(c, sr1) ==
    LET c1 == er_af(c, sr1)
        c2 == handle_error(c1, sr1, "berr", "NONE")
        c3 == handle_error(c2, sr1, "arlo", "ArbitrationLoss")
        c4 == handle_error(c3, sr1, "ovr", "Overrun")
        c5 == handle_error(c4, sr1, "pecerr", "PecError")
        c6 == handle_error(c5, sr1, "timeout", "Timeout")
    IN handle_error(c6, sr1, "alert", "SmBusAlert")

----------------------------------------------------------------------------
\* The machine

\* what an invocation leaves in `inv`: its inputs, the bridge as it found it,
\* and what it did
NoInput == "none"

Before ==
    [state |-> state, pe |-> pe, itbufen |-> itbufen, itevten |-> itevten,
     send_buffer |-> send_buffer, receive_buffer |-> receive_buffer,
     channel |-> channel, wire |-> wire]

IsrRecord(op, sr1, sr2, byte, c) ==
    [op |-> op, sr1 |-> sr1,
     sr2 |-> IF c.sr2read THEN sr2 ELSE NoInput,
     dr |-> IF c.drread THEN byte ELSE NoInput,
     pre |-> Before,
     emitted |-> c.emitted, trans |-> c.trans, cleared |-> c.cleared,
     popped |-> c.popped, stored |-> c.stored, peset |-> c.peset,
     ret |-> c.ret, panicked |-> c.panicked]

\* the histories and the two logs are kept on the paced bus only; no handler
\* reads them
Logging == mode \in {"bus", "scenario", "task"}

HasTxEmpty(emitted) ==
    \E i \in 1 .. Len(emitted) : emitted[i].ok /\ emitted[i].event.tag = "TxEmpty"

Commit(c) ==
    /\ state' = c.state
    /\ history' = IF Logging THEN c.history ELSE history
    /\ events_history' = IF Logging THEN c.events_history ELSE events_history
    /\ channel' = c.channel
    /\ pe' = c.pe
    /\ itbufen' = c.itbufen
    /\ itevten' = c.itevten
    /\ send_buffer' = c.send_buffer
    /\ receive_buffer' = c.receive_buffer
    /\ wire' = c.wire
    /\ txlog' = c.txlog
    /\ txempty_pending' = (txempty_pending \/ HasTxEmpty(c.emitted))
    /\ panicked' = c.panicked
    /\ enq' = IF Logging THEN enq \o c.emitted ELSE enq

\* write() called without masking the interrupts
NeverInCriticalSection == FALSE

\* critical_section::with: interrupts are masked while the task is inside
InCriticalSection == taskpc = "write"

\* An interrupt is taken only by a running program, outside critical sections,
\* from an enabled peripheral
IsrCanRun ==
    /\ ~panicked
    /\ ~InCriticalSection
    /\ pe
    /\ nisr < (IF mode = "any" THEN MaxIsr ELSE MaxBusIsr)

\* the event line: ITEVTEN gates ADDR, STOPF and BTF; TXE and RXNE need
\* ITBUFEN as well
EventIrq(sr1) ==
    itevten /\ (sr1.addr \/ sr1.stopf \/ sr1.btf \/ (itbufen /\ (sr1.txe \/ sr1.rxne)))

\* the error line (ITERREN is set once in I2CSlave::new and never cleared)
ErrorIrq(sr1) ==
    sr1.af \/ sr1.berr \/ sr1.arlo \/ sr1.ovr \/ sr1.pecerr \/ sr1.timeout \/ sr1.alert

EventInterrupt ==
    /\ IsrCanRun
    /\ \E sr1 \in (IF mode = "any" THEN EventFlags ELSE BusEventFlags) :
       \E sr2 \in IF sr1.addr THEN Sr2 ELSE {[tra |-> FALSE, gencall |-> FALSE]} :
       \E byte \in IF sr1.rxne THEN Byte ELSE {0} :
          /\ EventIrq(sr1)
          /\ LET c == handle_event_interrupt(Context, sr1, sr2, byte)
             IN /\ Commit(c)
                /\ inv' = IsrRecord("event", sr1, sr2, byte, c)
    /\ nisr' = nisr + 1
    /\ UNCHANGED <<taskpc, ntask, deq, mode, master, rxlog, txblock, txyield>>

ErrorInterrupt ==
    /\ IsrCanRun
    /\ \E sr1 \in (IF mode = "any" THEN ErrorFlags ELSE BusErrorFlags) :
          /\ ErrorIrq(sr1)
          /\ LET c == handle_error_interrupt(Context, sr1)
             IN /\ Commit(c)
                /\ inv' = IsrRecord("error", sr1, NoInput, NoInput, c)
    /\ nisr' = nisr + 1
    /\ UNCHANGED <<taskpc, ntask, deq, mode, master, rxlog, txblock, txyield>>

\* the number of operations of the task followed; a scenario ends by itself
TaskBound ==
    IF mode = "any" THEN MaxTask ELSE IF mode = "bus" THEN MaxBusTask ELSE ntask + 1

\* the task runs only in a program that has not aborted
TaskCanRun ==
    /\ ~panicked
    /\ taskpc = "run"
    /\ ntask < TaskBound

\* receive taking the newest entry
receive_newest(ch) == <<ch[Len(ch)], SubSeq(ch, 1, Len(ch) - 1)>>

\* slave.rs listen / bridge.rs receive: suspends while the channel is empty
receive(ch) == <<Head(ch), Tail(ch)>>

Listen ==
    /\ TaskCanRun
    /\ channel # <<>>
    /\ LET r == receive(channel)
       IN /\ channel' = r[2]
          /\ deq' = IF Logging THEN Append(deq, r[1]) ELSE deq
          /\ inv' = [op |-> "listen", result |-> r[1]]
    /\ ntask' = ntask + 1
    /\ UNCHANGED <<state, history, events_history, pe, itbufen, itevten, send_buffer,
                   receive_buffer, wire, taskpc, panicked, nisr, enq, txlog,
                   txempty_pending, mode, master, rxlog, txblock, txyield>>

\* bridge.rs read : <<buffer after, is_ok, value, dst after>>
Bridge_read(rb, dst) ==
    LET r == ReceiveBuffer_read(rb, dst)
    IN <<IF r[1] THEN ReceiveBuffer_reset(rb) ELSE rb, r[1], r[2], r[3]>>

\* a destination slice of n bytes, as the caller hands it in
Dst(n) == [i \in 1 .. n |-> "old"]

Read ==
    /\ TaskCanRun
    /\ \E n \in 0 .. RXBUFSIZE :
          LET r == Bridge_read(receive_buffer, Dst(n))
          IN /\ receive_buffer' = r[1]
             /\ inv' = [op |-> "read", n |-> n, ok |-> r[2], value |-> r[3],
                        dst |-> r[4]]
    /\ ntask' = ntask + 1
    /\ UNCHANGED <<state, history, events_history, channel, pe, itbufen, itevten,
                   send_buffer, wire, taskpc, panicked, nisr, enq, deq, txlog,
                   txempty_pending, mode, master, rxlog, txblock, txyield>>

\* slave.rs n_read: read(cs, &mut []).unwrap_err()
NRead ==
    /\ TaskCanRun
    /\ LET r == Bridge_read(receive_buffer, Dst(0))
       IN /\ receive_buffer' = r[1]
          /\ panicked' = r[2]
          /\ inv' = [op |-> "n_read", ok |-> r[2], value |-> r[3]]
    /\ ntask' = ntask + 1
    /\ UNCHANGED <<state, history, events_history, channel, pe, itbufen, itevten,
                   send_buffer, wire, taskpc, nisr, enq, deq, txlog, txempty_pending,
                   mode, master, rxlog, txblock, txyield>>

\* the blocks the task may hand to write: every length up to one more than
\* the buffer takes, with bytes that tell the positions apart
Block(base, n) == [i \in 1 .. n |-> (base + i) % (MaxByte + 1)]
Blocks == {Block(base, n) : base \in Byte, n \in 0 .. TXBUFSIZE + 1}

\* slave.rs write / bridge.rs write, first half: inside the critical section,
\* SendBuffer::write
WriteFill ==
    /\ TaskCanRun
    /\ \E src \in Blocks :
          IF SendBuffer_write_panics(send_buffer, src)
          THEN /\ panicked' = TRUE
               /\ inv' = [op |-> "write_panic"]
               /\ UNCHANGED <<send_buffer, taskpc>>
          ELSE /\ send_buffer' = SendBuffer_write(send_buffer, src)
               /\ taskpc' = "write"
               /\ inv' = [op |-> "write_fill", src |-> src]
               /\ UNCHANGED panicked
    /\ ntask' = ntask + 1
    /\ UNCHANGED <<state, history, events_history, channel, pe, itbufen, itevten,
                   receive_buffer, wire, nisr, enq, deq, txlog, txempty_pending, mode, master, rxlog, txblock, txyield>>

\* second half: unlock_tx, then the critical section ends
WriteUnlock ==
    /\ ~panicked
    /\ taskpc = "write"
    /\ LET c == unlock_tx(Context)
       IN /\ itbufen' = c.itbufen
          /\ itevten' = c.itevten
    /\ taskpc' = "run"
    /\ inv' = [op |-> "write", src |-> inv.src,
               remainder |-> SendBuffer_write_remainder(inv.src)]
    /\ txempty_pending' = FALSE
    /\ UNCHANGED <<state, history, events_history, channel, pe, send_buffer,
                   receive_buffer, wire, panicked, nisr, ntask, enq, deq, txlog, mode, master, rxlog, txblock, txyield>>

\* Bridge::new, then I2CSlave::new: ITBUFEN, ITEVTEN, PE set
Start ==
    /\ state = "Idle"
    /\ history = <<>>
    /\ events_history = <<>>
    /\ channel = <<>>
    /\ pe = TRUE
    /\ itbufen = TRUE
    /\ itevten = TRUE
    /\ send_buffer = SendBuffer_new
    /\ receive_buffer = ReceiveBuffer_new
    /\ wire = <<>>
    /\ taskpc = "run"
    /\ panicked = FALSE
    /\ nisr = 0
    /\ ntask = 0
    /\ txlog = <<>>
    /\ txempty_pending = FALSE
    /\ enq = <<>>
    /\ deq = <<>>
    /\ rxlog = <<>>
    /\ txblock = <<>>
    /\ txyield = <<>>
    /\ inv = [op |-> "init"]

\* no scenario is played
NoScenario == [name |-> "none", todo |-> <<>>]

Init == Start /\ mode = "any" /\ master = NoScenario

InitBus == Start /\ mode = "bus" /\ master = NoScenario

Next ==
    \/ EventInterrupt
    \/ ErrorInterrupt
    \/ Listen
    \/ Read
    \/ NRead
    \/ WriteFill
    \/ WriteUnlock

Spec == Init /\ [][Next]_vars

\* the same machine on a paced bus
SpecBus == InitBus /\ [][Next]_vars

----------------------------------------------------------------------------
\* The two buffers and the TX lock on their own: the bridge's primitives applied
\* in any order, to bytes that tell the positions apart.

UnitByte == 0 .. MaxUnitByte

SeqsUpTo(S, n) == UNION {[1 .. k -> S] : k \in 0 .. n}

\* what the machine's actions leave alone when a buffer is exercised alone
UnitFrame ==
    UNCHANGED <<state, history, events_history, channel, pe, wire, taskpc, nisr, ntask,
                enq, deq, txlog, txempty_pending, mode, master>>

\* bridge.rs write_rxbuf_byte, as the rxne branch calls it
RxWriteByte ==
    /\ \E byte \in UnitByte :
          LET r == write_rxbuf_byte(Context, byte)
          IN /\ receive_buffer' = r[1].receive_buffer
             /\ rxlog' = rxlog \o r[1].stored
             /\ inv' = [op |-> "write_rxbuf_byte", byte |-> byte, ok |-> r[2]]
    /\ UnitFrame
    /\ UNCHANGED <<send_buffer, itbufen, itevten, panicked, txblock, txyield>>

\* bridge.rs read, with a destination of every length up to one more than the
\* buffer holds
RxRead ==
    /\ \E n \in 0 .. RXBUFSIZE + 1 :
          LET r == Bridge_read(receive_buffer, Dst(n))
          IN /\ receive_buffer' = r[1]
             /\ rxlog' = IF r[2] THEN <<>> ELSE rxlog
             /\ inv' = [op |-> "read", n |-> n, ok |-> r[2], value |-> r[3],
                        dst |-> r[4], pre |-> receive_buffer, log |-> rxlog]
    /\ UnitFrame
    /\ UNCHANGED <<send_buffer, itbufen, itevten, panicked, txblock, txyield>>

InitRx == Start /\ mode = "rx" /\ master = NoScenario

NextRx == RxWriteByte \/ RxRead

SpecRx == InitRx /\ [][NextRx]_vars

\* send_buffer.rs write, with every block up to one byte longer than the buffer
SbWrite ==
    /\ ~panicked
    /\ \E src \in SeqsUpTo(UnitByte, TXBUFSIZE + 1) :
          IF SendBuffer_write_panics(send_buffer, src)
          THEN /\ panicked' = TRUE
               /\ inv' = [op |-> "sb_write_panic", src |-> src, pre |-> send_buffer]
               /\ UNCHANGED <<send_buffer, txblock, txyield>>
          ELSE /\ send_buffer' = SendBuffer_write(send_buffer, src)
               /\ txblock' = src
               /\ txyield' = <<>>
               /\ inv' = [op |-> "sb_write", src |-> src, pre |-> send_buffer,
                          remainder |-> SendBuffer_write_remainder(src)]
               /\ UNCHANGED panicked
    /\ UnitFrame
    /\ UNCHANGED <<receive_buffer, itbufen, itevten, rxlog>>

\* bridge.rs pop_txbuf_byte
SbNext ==
    /\ ~panicked
    /\ LET r == pop_txbuf_byte(Context)
       IN /\ send_buffer' = r[1].send_buffer
          /\ txyield' = txyield \o r[2]
          /\ inv' = [op |-> "sb_next", item |-> r[2], pre |-> send_buffer]
    /\ UnitFrame
    /\ UNCHANGED <<receive_buffer, itbufen, itevten, panicked, rxlog, txblock>>

\* bridge.rs reset_txbuf
SbReset ==
    /\ ~panicked
    /\ LET r == reset_txbuf(Context)
       IN /\ send_buffer' = r[1].send_buffer
          /\ inv' = [op |-> "sb_reset", value |-> r[2], pre |-> send_buffer]
    /\ txblock' = <<>>
    /\ txyield' = <<>>
    /\ UnitFrame
    /\ UNCHANGED <<receive_buffer, itbufen, itevten, panicked, rxlog>>

\* bridge.rs lock_tx
TxLock ==
    /\ ~panicked
    /\ \E lock_type \in {"TxOnly", "TxAndBtf"} :
          LET c == lock_tx(Context, lock_type)
          IN /\ itbufen' = c.itbufen
             /\ itevten' = c.itevten
             /\ inv' = [op |-> "lock_tx", lock_type |-> lock_type]
    /\ UnitFrame
    /\ UNCHANGED <<send_buffer, receive_buffer, panicked, rxlog, txblock, txyield>>

\* bridge.rs unlock_tx
TxUnlock ==
    /\ ~panicked
    /\ LET c == unlock_tx(Context)
       IN /\ itbufen' = c.itbufen
          /\ itevten' = c.itevten
          /\ inv' = [op |-> "unlock_tx", pre |-> <<itbufen, itevten>>]
    /\ UnitFrame
    /\ UNCHANGED <<send_buffer, receive_buffer, panicked, rxlog, txblock, txyield>>

InitTx == Start /\ mode = "tx" /\ master = NoScenario

NextTx == SbWrite \/ SbNext \/ SbReset \/ TxLock \/ TxUnlock

SpecTx == InitTx /\ [][NextTx]_vars

----------------------------------------------------------------------------
\* End-to-end scenarios: the master's transaction as a sequence of synthetic
\* interrupt invocations, each taken when its interrupt is enabled, and a task
\* that listens and writes one block, either before the transaction or when it
\* has dequeued TxEmpty.

\* one step of the master
Ev(flags, tra, gencall) ==
    [kind |-> "event", flags |-> flags, tra |-> tra, gencall |-> gencall]
Er(flags) ==
    [kind |-> "error", flags |-> flags, tra |-> FALSE, gencall |-> FALSE]

Times(n, steps) == IF n <= 0 THEN <<>> ELSE [i \in 1 .. n * Len(steps) |->
                                              steps[((i - 1) % Len(steps)) + 1]]

\* the address match of a read and the first TXE, in one invocation or in two
ReadAddr(coalesce, gencall) ==
    IF coalesce THEN <<Ev({"addr", "txe"}, TRUE, gencall)>>
    ELSE <<Ev({"addr"}, TRUE, gencall), Ev({"txe"}, FALSE, FALSE)>>

\* TXE before the byte on the wire has finished: the handler may or may not
\* be invoked for it
EarlyTxe(txonly) == IF txonly THEN <<Ev({"txe"}, FALSE, FALSE)>> ELSE <<>>

NackStop == <<Er({"af"}), Ev({"stopf"}, FALSE, FALSE)>>

\* S3: the master writes n bytes, repeated start, reads one byte, NACK, STOP
S3(n, gencall, coalesce, txonly) ==
    [name |-> "S3", n |-> n, m |-> 1, k |-> 1, answers |-> TRUE, gencall |-> gencall,
     wrote |-> FALSE,
     todo |-> <<Ev({"addr"}, FALSE, gencall)>>
              \o Times(n, <<Ev({"rxne"}, FALSE, FALSE)>>)
              \o ReadAddr(coalesce, gencall)
              \o <<Ev({"txe"}, FALSE, FALSE)>>
              \o EarlyTxe(txonly)
              \o NackStop]

\* the invocations that put k bytes of a block on the wire, the first of
\* them on TXE alone, the others on BTF. The early TXE after the first byte
\* locks the buffer interrupt (TxLockMode::TxOnly), and only Bridge::write
\* enables it again: no later TXE alone can invoke the handler.
Pops(k, txonly) ==
    IF k = 0 THEN <<>>
    ELSE <<Ev({"txe"}, FALSE, FALSE)>>
         \o EarlyTxe(txonly)
         \o Times(k - 1, <<Ev({"txe", "btf"}, FALSE, FALSE)>>)

\* S5: the master reads, the task supplies m bytes, NACK after k < m bytes, STOP.
\* The block is written before the transaction, or in answer to TxEmpty.  A
\* NACK answers a byte, so k >= 1.
S5(m, k, answers, gencall, coalesce, txonly) ==
    [name |-> "S5", n |-> 0, m |-> m, k |-> k, answers |-> answers, gencall |-> gencall,
     wrote |-> FALSE,
     todo |-> IF answers
              THEN ReadAddr(coalesce, gencall) \o Pops(k, txonly) \o NackStop
              ELSE (IF coalesce
                    THEN <<Ev({"addr", "txe"}, TRUE, gencall)>> \o Tail(Pops(k, txonly))
                    ELSE <<Ev({"addr"}, TRUE, gencall)>> \o Pops(k, txonly))
                   \o NackStop]

\* TXE with BTF: the byte on the wire has finished and the data register is
\* empty
Btf == Ev({"txe", "btf"}, FALSE, FALSE)

\* S6: the master reads k bytes, the task answers every TxEmpty with a block of
\* m < k bytes: the first block drains, the handler asks again on BTF, the
\* master goes on with the second block, NACK, STOP.
S6(m, k, gencall, coalesce, txonly) ==
    [name |-> "S6", n |-> 0, m |-> m, k |-> k, answers |-> TRUE, gencall |-> gencall,
     wrote |-> FALSE,
     todo |-> ReadAddr(coalesce, gencall)
              \o Pops(m, txonly)
              \o <<Btf, Btf>>
              \o EarlyTxe(txonly)
              \o Times(k - m - 1, <<Btf>>)
              \o NackStop]

Scenarios ==
    {S3(n, g, c, t) : n \in 1 .. RXBUFSIZE, g \in BOOLEAN, c \in BOOLEAN, t \in BOOLEAN}
    \cup UNION {{S5(m, k, a, g, c, t) : k \in 1 .. m - 1, a \in BOOLEAN, g \in BOOLEAN,
                                        c \in BOOLEAN, t \in BOOLEAN} :
                m \in 1 .. TXBUFSIZE}
    \cup UNION {{S6(m, k, g, c, t) : k \in m + 1 .. 2 * m, g \in BOOLEAN, c \in BOOLEAN,
                                     t \in BOOLEAN} :
                m \in 1 .. TXBUFSIZE}

\* the master's next step can be taken: its interrupt is enabled; a block due
\* before the transaction is written first
StepEnabled(st) ==
    /\ master.answers \/ master.wrote
    /\ ~InCriticalSection
    /\ pe
    /\ IF st.kind = "event" THEN EventIrq(EventSr1(st.flags))
                            ELSE ErrorIrq(ErrorSr1(st.flags))

ScenarioStep(kind) ==
    /\ ~panicked
    /\ master.todo # <<>>
    /\ Head(master.todo).kind = kind
    /\ StepEnabled(Head(master.todo))
    /\ master' = [master EXCEPT !.todo = Tail(master.todo)]

ScenarioEvent ==
    /\ ScenarioStep("event")
    /\ LET st == Head(master.todo)
           sr1 == EventSr1(st.flags)
           sr2 == [tra |-> st.tra, gencall |-> st.gencall]
           c == handle_event_interrupt(Context, sr1, sr2, 0)
       IN /\ Commit(c)
          /\ inv' = IsrRecord("event", sr1, sr2, 0, c)
    /\ nisr' = nisr + 1
    /\ UNCHANGED <<taskpc, ntask, deq, mode, rxlog, txblock, txyield>>

ScenarioError ==
    /\ ScenarioStep("error")
    /\ LET sr1 == ErrorSr1(Head(master.todo).flags)
           c == handle_error_interrupt(Context, sr1)
       IN /\ Commit(c)
          /\ inv' = IsrRecord("error", sr1, NoInput, NoInput, c)
    /\ nisr' = nisr + 1
    /\ UNCHANGED <<taskpc, ntask, deq, mode, rxlog, txblock, txyield>>

\* the task is to write now: before the transaction, or because the result
\* listen() returned last is a TxEmpty it has not yet answered
WriteDue ==
    /\ taskpc = "run"
    /\ IF master.answers
       THEN /\ txempty_pending
            /\ deq # <<>>
            /\ deq[Len(deq)].ok
            /\ deq[Len(deq)].event.tag = "TxEmpty"
       ELSE ~master.wrote

\* the task calls write: the first half; WriteUnlock is the second
ScenarioWrite ==
    /\ ~panicked
    /\ WriteDue
    /\ LET src == Block(0, master.m)
       IN IF SendBuffer_write_panics(send_buffer, src)
          THEN /\ panicked' = TRUE
               /\ inv' = [op |-> "write_panic"]
               /\ UNCHANGED <<send_buffer, taskpc>>
          ELSE /\ send_buffer' = SendBuffer_write(send_buffer, src)
               /\ taskpc' = "write"
               /\ inv' = [op |-> "write_fill", src |-> src]
               /\ UNCHANGED panicked
    /\ master' = [master EXCEPT !.wrote = TRUE]
    /\ ntask' = ntask + 1
    /\ UNCHANGED <<state, history, events_history, channel, pe, itbufen, itevten,
                   receive_buffer, wire, nisr, enq, deq, txlog, txempty_pending, mode,
                   rxlog, txblock, txyield>>

\* the task listens when it has nothing to write
ScenarioListen == ~WriteDue /\ Listen

InitScenario == Start /\ mode = "scenario" /\ master \in Scenarios

NextScenario ==
    \/ ScenarioEvent
    \/ ScenarioError
    \/ ScenarioWrite
    \/ WriteUnlock
    \/ ScenarioListen

SpecScenario == InitScenario /\ [][NextScenario]_vars

\* ENABLED ScenarioEvent: the master's next step is an event whose interrupt
\* is enabled
EventDue ==
    /\ ~panicked
    /\ master.todo # <<>>
    /\ Head(master.todo).kind = "event"
    /\ StepEnabled(Head(master.todo))

\* a step of ScenarioEvent
EventServiced == nisr' = nisr + 1 /\ inv'.op = "event"

\* the same, with scheduling: the critical section of write ends, and an
\* enabled event interrupt is eventually serviced (WF_vars(ScenarioEvent), its
\* ENABLED written as the guard of the action)
SpecLive ==
    /\ SpecScenario
    /\ WF_vars(WriteUnlock)
    /\ ([]<>~EventDue \/ []<><<EventServiced>>_vars)

----------------------------------------------------------------------------
\* The event handler on its own: one invocation from every state of the
\* bridge, with every combination of flags, whatever the interrupt enables.

\* a receive buffer holding n bytes
ReceiveBufferOf(n) ==
    [buf |-> [i \in 1 .. RXBUFSIZE |-> IF i <= n THEN 0 ELSE Uninit], size |-> n]

\* a send buffer that took a block of n bytes and has yielded k of them
SendBufferOf(n, k) ==
    [SendBuffer_write(SendBuffer_new, Block(0, n)) EXCEPT !.pos = k]

\* a channel holding n entries the task has not taken
ChannelOf(n) == [i \in 1 .. n |-> Ok(Stop)]

InitBurst ==
    /\ mode = "burst"
    /\ master = NoScenario
    /\ state \in State
    /\ \E n \in 0 .. TXBUFSIZE : \E k \in 0 .. n : send_buffer = SendBufferOf(n, k)
    /\ \E n \in 0 .. RXBUFSIZE : receive_buffer = ReceiveBufferOf(n)
    /\ \E n \in 0 .. CHSIZE : channel = ChannelOf(n)
    /\ history = <<>>
    /\ events_history = <<>>
    /\ pe = TRUE
    /\ itbufen = TRUE
    /\ itevten = TRUE
    /\ wire = <<>>
    /\ taskpc = "run"
    /\ panicked = FALSE
    /\ nisr = 0
    /\ ntask = 0
    /\ txlog = <<>>
    /\ txempty_pending = FALSE
    /\ enq = <<>>
    /\ deq = <<>>
    /\ rxlog = <<>>
    /\ txblock = <<>>
    /\ txyield = <<>>
    /\ inv = [op |-> "init"]

\* handle_event_interrupt, once
BurstEvent ==
    /\ nisr = 0
    /\ \E sr1 \in EventFlags : \E sr2 \in Sr2 : \E byte \in Byte :
          LET c == handle_event_interrupt(Context, sr1, sr2, byte)
          IN /\ Commit(c)
             /\ inv' = IsrRecord("event", sr1, sr2, byte, c)
    /\ nisr' = nisr + 1
    /\ UNCHANGED <<taskpc, ntask, deq, mode, master, rxlog, txblock, txyield>>

NextBurst == BurstEvent

SpecBurst == InitBurst /\ [][NextBurst]_vars

----------------------------------------------------------------------------
\* The paced bus with the task of the example (main_task): it listens, calls
\* read once for each Received it dequeues and write once for each TxEmpty it
\* dequeues, and stops at the first Err.

\* what the task does with the result of listen
AfterListen(result) ==
    IF ~result.ok THEN "done"
    ELSE IF result.event.tag = "Received" THEN "take"
    ELSE IF result.event.tag = "TxEmpty" THEN "answer"
    ELSE "run"

TaskListen ==
    /\ ~panicked
    /\ taskpc = "run"
    /\ channel # <<>>
    /\ LET r == receive(channel)
       IN /\ channel' = r[2]
          /\ deq' = Append(deq, r[1])
          /\ taskpc' = AfterListen(r[1])
          /\ inv' = [op |-> "listen", result |-> r[1]]
    /\ ntask' = ntask + 1
    /\ UNCHANGED <<state, history, events_history, pe, itbufen, itevten, send_buffer,
                   receive_buffer, wire, panicked, nisr, enq, txlog, txempty_pending,
                   mode, master, rxlog, txblock, txyield>>

\* Control::Received => slave.read(cs, &mut buf).unwrap(), buf of RXBUFSIZE bytes
TaskRead ==
    /\ ~panicked
    /\ taskpc = "take"
    /\ LET r == Bridge_read(receive_buffer, Dst(RXBUFSIZE))
       IN /\ receive_buffer' = r[1]
          /\ panicked' = ~r[2]
          /\ inv' = [op |-> "read", n |-> RXBUFSIZE, ok |-> r[2], value |-> r[3],
                     dst |-> r[4], event |-> deq[Len(deq)].event]
    /\ taskpc' = "run"
    /\ ntask' = ntask + 1
    /\ UNCHANGED <<state, history, events_history, channel, pe, itbufen, itevten,
                   send_buffer, wire, nisr, enq, deq, txlog, txempty_pending, mode,
                   master, rxlog, txblock, txyield>>

\* the blocks the task answers with: every length the send buffer takes
Answers == {Block(base, n) : base \in Byte, n \in 0 .. TXBUFSIZE}

\* Control::TxEmpty => slave.write(buf): the first half; WriteUnlock is the
\* second
TaskWrite ==
    /\ ~panicked
    /\ taskpc = "answer"
    /\ \E src \in Answers :
          IF SendBuffer_write_panics(send_buffer, src)
          THEN /\ panicked' = TRUE
               /\ inv' = [op |-> "write_panic"]
               /\ UNCHANGED <<send_buffer, taskpc>>
          ELSE /\ send_buffer' = SendBuffer_write(send_buffer, src)
               /\ taskpc' = "write"
               /\ inv' = [op |-> "write_fill", src |-> src]
               /\ UNCHANGED panicked
    /\ ntask' = ntask + 1
    /\ UNCHANGED <<state, history, events_history, channel, pe, itbufen, itevten,
                   receive_buffer, wire, nisr, enq, deq, txlog, txempty_pending, mode,
                   master, rxlog, txblock, txyield>>

InitTask == Start /\ mode = "task" /\ master = NoScenario

NextTask ==
    \/ EventInterrupt
    \/ ErrorInterrupt
    \/ TaskListen
    \/ TaskRead
    \/ TaskWrite
    \/ WriteUnlock

SpecTask == InitTask /\ [][NextTask]_vars

TypeOK ==
    /\ state \in State
    /\ Len(channel) <= CHSIZE

----------------------------------------------------------------------------
\* Properties.  A step of a handler is a step that counts an invocation.

IsrStep == nisr' # nisr

AfterIsr == inv.op \in {"event", "error"}

TxStates == {"TxInitial", "TxRepeated"}
NonTxStates == {"Idle", "Rx", "Nack"}

ErrCount(emitted) == Cardinality({k \in 1 .. Len(emitted) : ~emitted[k].ok})

OkAll(events) == [k \in 1 .. Len(events) |-> Ok(events[k])]

----------------------------------------------------------------------------
\* C1

LegalEdges ==
    {<<"Idle", "Rx">>, <<"Idle", "TxInitial">>, <<"Rx", "Rx">>, <<"Rx", "TxInitial">>,
     <<"Rx", "Idle">>, <<"TxInitial", "TxRepeated">>, <<"TxInitial", "Nack">>,
     <<"TxRepeated", "Nack">>, <<"Nack", "Idle">>, <<"Nack", "Rx">>,
     <<"Nack", "TxInitial">>}

\* the set_state calls of one invocation lead from `from` to `to` along legal edges
IsLegalPath(from, trans, to) ==
    /\ \A k \in 1 .. Len(trans) : trans[k] \in LegalEdges
    /\ \A k \in 1 .. Len(trans) - 1 : trans[k][2] = trans[k + 1][1]
    /\ IF trans = <<>> THEN from = to
       ELSE trans[1][1] = from /\ trans[Len(trans)][2] = to

\* C1: every set_state call of a handler follows one of the eleven edges (the
\* calls of one invocation chain from the state before to the state after), and
\* a step of the task (listen, read, n_read, write) leaves the state as it is.
C1_StateEdges ==
    [][IF IsrStep THEN IsLegalPath(state, inv'.trans, state') ELSE state' = state]_vars

\* an invocation that takes two edges: Idle -> TxInitial -> TxRepeated
C1_Witness ==
    /\ inv.op = "event"
    /\ inv.trans = <<<<"Idle", "TxInitial">>, <<"TxInitial", "TxRepeated">>>>
    /\ state = "TxRepeated"

----------------------------------------------------------------------------
\* C2: the events section 4.1 / 4.2 prescribe for an invocation, worked out
\* from the state before and the flags alone

StateAfterAddr(i) ==
    IF i.sr1.addr THEN (IF i.sr2.tra THEN "TxInitial" ELSE "Rx") ELSE i.pre.state

ByteAvailable(i) == i.pre.send_buffer.pos # i.pre.send_buffer.end

StateAfterTxe(i) ==
    IF i.sr1.txe /\ StateAfterAddr(i) = "TxInitial" /\ ByteAvailable(i)
    THEN "TxRepeated"
    ELSE StateAfterAddr(i)

\* every flag that is set is legal where it is decoded
LegalEventInvocation(i) ==
    /\ ~(i.sr1.txe /\ i.sr1.rxne)
    /\ i.sr1.addr => i.pre.state \in NonTxStates
    /\ i.sr1.rxne => /\ StateAfterAddr(i) = "Rx"
                     /\ i.pre.receive_buffer.size < RXBUFSIZE
    /\ i.sr1.txe => StateAfterAddr(i) \in TxStates
    /\ i.sr1.stopf => StateAfterTxe(i) \in NonTxStates

PrescribedForAddr(i) ==
    IF ~i.sr1.addr THEN <<>>
    ELSE (IF i.pre.state = "Rx"
          THEN <<Received(i.pre.receive_buffer.size, i.sr2.tra)>>
          ELSE <<>>) \o <<Addr(i.sr2.tra, i.sr2.gencall)>>

PrescribedForTxe(i) ==
    IF i.sr1.txe /\ (StateAfterAddr(i) = "TxInitial" \/ i.sr1.btf) /\ ~ByteAvailable(i)
    THEN <<TxEmpty(StateAfterAddr(i) = "TxInitial")>>
    ELSE <<>>

PrescribedForStopf(i) ==
    IF ~i.sr1.stopf THEN <<>>
    ELSE (IF StateAfterTxe(i) = "Rx"
          THEN <<Received(i.pre.receive_buffer.size + (IF i.sr1.rxne THEN 1 ELSE 0),
                          FALSE)>>
          ELSE <<>>)
         \o (IF StateAfterTxe(i) # "Idle" THEN <<Stop>> ELSE <<>>)

PrescribedEvents(i) ==
    PrescribedForAddr(i) \o PrescribedForTxe(i) \o PrescribedForStopf(i)

LegalErrorInvocation(i) ==
    /\ i.sr1.af => i.pre.state \in TxStates
    /\ ~(i.sr1.arlo \/ i.sr1.ovr \/ i.sr1.pecerr \/ i.sr1.timeout \/ i.sr1.alert)

\* C2: an invocation in which every set flag is legal appends to the channel
\* exactly the prescribed events, in decoding order, and no Err: Received before
\* Addr on a repeated start, nothing for rxne or for txe with a byte at hand,
\* one TxEmpty{initial} for txe with the send buffer empty, Received before Stop
\* on stopf from Rx, only Stop from Nack, nothing from Idle, one Sent for af.
\* (An invocation that aborts on a full channel is left out.)
C2_PrescribedEvents ==
    /\ AfterIsr => channel = inv.pre.channel \o inv.emitted
    /\ (inv.op = "event" /\ ~inv.panicked /\ LegalEventInvocation(inv))
          => inv.emitted = OkAll(PrescribedEvents(inv))
    /\ (inv.op = "error" /\ ~inv.panicked /\ LegalErrorInvocation(inv))
          => IF inv.sr1.af
             THEN /\ Len(inv.emitted) = 1
                  /\ inv.emitted[1].ok
                  /\ inv.emitted[1].event.tag = "Sent"
             ELSE inv.emitted = <<>>

\* a repeated start turning the bus around: Received{write = true}, then Addr
C2_Witness ==
    /\ inv.op = "event"
    /\ ~inv.panicked
    /\ LegalEventInvocation(inv)
    /\ inv.pre.state = "Rx"
    /\ inv.sr1.addr
    /\ Len(inv.emitted) >= 2
    /\ inv.emitted[1] = Ok(Received(inv.pre.receive_buffer.size, TRUE))
    /\ inv.emitted[2].event.tag = "Addr"

----------------------------------------------------------------------------
\* C3: on the paced bus, with both logs kept: what listen() has returned so
\* far, followed by what is still in the channel, is what the handlers have
\* sent, in the order they sent it; so the results of listen() are the entries
\* sent, each once, in order.
C3_Fifo == Logging => deq \o channel = enq

\* two different results delivered while a third entry waits
C3_Witness ==
    /\ Logging
    /\ Len(deq) >= 2
    /\ deq[1] # deq[2]
    /\ channel # <<>>
    /\ inv.op = "listen"

----------------------------------------------------------------------------
\* C4: in every invocation at most one Err is written, and it is the last
\* entry the invocation writes.  (The error handler's poly_set_error! does not
\* return: arlo and ovr together write two.)
C4_SingleErr ==
    AfterIsr => /\ ErrCount(inv.emitted) <= 1
                /\ \A k \in 1 .. Len(inv.emitted) :
                      ~inv.emitted[k].ok => k = Len(inv.emitted)

----------------------------------------------------------------------------
\* C5: the first illegal condition in decoding order, from the state before
\* and the flags alone

NoError == <<"none">>

FirstEventError(i) ==
    IF i.sr1.txe /\ i.sr1.rxne THEN Protocol("RxneAndTxne")
    ELSE IF i.sr1.addr /\ i.pre.state \in TxStates
    THEN Protocol("AddrDuringTransmission")
    ELSE IF i.sr1.rxne /\ StateAfterAddr(i) # "Rx"
    THEN Protocol("RxneWhileNotReceiving")
    ELSE IF i.sr1.rxne /\ i.pre.receive_buffer.size = RXBUFSIZE
    THEN ReceiveBufferFull
    ELSE IF i.sr1.txe /\ StateAfterAddr(i) \in NonTxStates
    THEN Protocol("TxeWhileNotTranseiving")
    ELSE IF i.sr1.stopf /\ StateAfterTxe(i) \in TxStates
    THEN Protocol("StopDuringTransmission")
    ELSE NoError

I2CErrorOf ==
    [arlo |-> "ArbitrationLoss", ovr |-> "Overrun", pecerr |-> "PecError",
     timeout |-> "Timeout", alert |-> "SmBusAlert"]

\* C5: when a flag is illegal where it is decoded, the handler writes the
\* matching Err, as the only Err and the last entry for the event handler, and PE
\* is 0 when it returns (also for stopf in a Tx state, which sets PE first); a
\* NACK outside a transmission gives NackWhileNotTranseiving alone; otherwise
\* each of arlo, ovr, pecerr, timeout, alert that is set gives its I2C error.
\* (An invocation that aborts on a full channel is left out.)
C5_MatchingError ==
    /\ (inv.op = "event" /\ ~inv.panicked /\ FirstEventError(inv) # NoError)
          => /\ inv.emitted # <<>>
             /\ inv.emitted[Len(inv.emitted)] = Err(FirstEventError(inv))
             /\ ErrCount(inv.emitted) = 1
             /\ pe = FALSE
    /\ (inv.op = "error" /\ ~inv.panicked /\ inv.sr1.af /\ inv.pre.state \in NonTxStates)
          => /\ inv.emitted = <<Err(Protocol("NackWhileNotTranseiving"))>>
             /\ pe = FALSE
    /\ (inv.op = "error" /\ ~inv.panicked
          /\ ~(inv.sr1.af /\ inv.pre.state \in NonTxStates))
          => \A f \in DOMAIN I2CErrorOf :
                inv.sr1[f] => /\ \E k \in 1 .. Len(inv.emitted) :
                                    inv.emitted[k] = Err(I2C(I2CErrorOf[f]))
                              /\ pe = FALSE

\* stopf during a transmission: PE was set, then cleared by fail
C5_Witness ==
    /\ inv.op = "event"
    /\ inv.pre.state = "TxRepeated"
    /\ inv.peset
    /\ inv.emitted = <<Err(Protocol("StopDuringTransmission"))>>
    /\ pe = FALSE

----------------------------------------------------------------------------
\* C6: no handler runs while the task is inside write(), and no handler pops
\* a byte of the send buffer between a TxEmpty and the end of the write() that
\* answers it.
C6_NoPopBeforeWriteReturns ==
    [][IsrStep => /\ taskpc = "run"
                  /\ inv'.popped # <<>> => ~txempty_pending]_vars

\* after a TxEmpty of this transaction was answered, the handler pops a byte
C6_Witness ==
    /\ inv.op = "event"
    /\ inv.popped # <<>>
    /\ txlog # <<>>
    /\ ~txempty_pending
    /\ Len(wire) = 1

----------------------------------------------------------------------------
\* C7 as claimed: the first TxEmpty of a transaction carries initial = true
\* and every later one initial = false.
C7_InitialFirstAndOnce ==
    \/ txlog = <<>>
    \/ /\ txlog[1].initial
       /\ \A k \in 2 .. Len(txlog) : ~txlog[k].initial

\* C7 as amended: a TxEmpty carries initial = true exactly when no byte of the
\* transaction has been written to the data register yet; so after a
\* TxEmpty{initial = false} no TxEmpty of the transaction carries initial = true.
C7_InitialIffNothingSent ==
    /\ \A k \in 1 .. Len(txlog) : txlog[k].initial <=> (txlog[k].wire = 0)
    /\ \A j, k \in 1 .. Len(txlog) :
          (j < k /\ ~txlog[j].initial) => ~txlog[k].initial

\* a block written before the address match: the first demand is not initial
C7_Witness ==
    /\ inv.op = "event"
    /\ txlog = <<[initial |-> FALSE, wire |-> 1]>>
    /\ state = "TxRepeated"

----------------------------------------------------------------------------
\* C8: the Sent a NACK produces reports the number of bytes written to the
\* data register since the address match.
C8_SentCountsBytesOnWire ==
    inv.op = "error" =>
        \A k \in 1 .. Len(inv.emitted) :
            (inv.emitted[k].ok /\ inv.emitted[k].event.tag = "Sent")
                => inv.emitted[k].event.sent = Len(inv.pre.wire)

----------------------------------------------------------------------------
\* C9: a Received carries the size of the receive buffer at that moment;
\* the one before Addr (repeated start) carries write = tra, the one before Stop
\* carries write = false; the error handler sends none.
\* (An invocation that aborts on a full channel is left out.)
IsReceived(entry) == entry.ok /\ entry.event.tag = "Received"

C9_ReceivedSizeAndWrite ==
    /\ (inv.op = "error") => \A k \in 1 .. Len(inv.emitted) : ~IsReceived(inv.emitted[k])
    /\ (inv.op = "event" /\ ~inv.panicked)
          => \A k \in 1 .. Len(inv.emitted) :
                IsReceived(inv.emitted[k])
                   => /\ k < Len(inv.emitted)
                      /\ inv.emitted[k + 1].ok
                      /\ \/ /\ inv.emitted[k + 1].event.tag = "Addr"
                            /\ inv.sr1.addr
                            /\ inv.pre.state = "Rx"
                            /\ inv.emitted[k].event.size = inv.pre.receive_buffer.size
                            /\ inv.emitted[k].event.write = inv.sr2.tra
                         \/ /\ inv.emitted[k + 1].event.tag = "Stop"
                            /\ inv.sr1.stopf
                            /\ inv.emitted[k].event.size = receive_buffer.size
                            /\ inv.emitted[k].event.write = FALSE

\* the last byte and the STOP decoded in one invocation
C9_Witness ==
    /\ inv.op = "event"
    /\ inv.sr1.rxne
    /\ inv.sr1.stopf
    /\ inv.pre.receive_buffer.size = 1
    /\ inv.emitted = <<Ok(Received(2, FALSE)), Ok(Stop)>>

----------------------------------------------------------------------------
\* C10

\* rxne is decoded in state Rx with the receive buffer full
RxneOnFullBuffer(i) ==
    /\ i.sr1.rxne
    /\ ~i.sr1.txe
    /\ i.sr1.addr => i.pre.state \in NonTxStates
    /\ StateAfterAddr(i) = "Rx"
    /\ i.pre.receive_buffer.size = RXBUFSIZE

\* C10: 0 <= size <= RXBUFSIZE always; rxne in Rx on a full buffer stores
\* nothing, writes Err(ReceiveBufferFull) as its only Err and last entry, and
\* leaves PE = 0.  (An invocation that aborts on a full channel is left out.)
C10_ReceiveBufferBounded ==
    /\ receive_buffer.size \in 0 .. RXBUFSIZE
    /\ (inv.op = "event" /\ ~inv.panicked /\ RxneOnFullBuffer(inv))
          => /\ receive_buffer = inv.pre.receive_buffer
             /\ inv.stored = <<>>
             /\ inv.emitted # <<>>
             /\ inv.emitted[Len(inv.emitted)] = Err(ReceiveBufferFull)
             /\ ErrCount(inv.emitted) = 1
             /\ pe = FALSE

\* one byte more than the buffer holds, without STOP: Addr, then the Err
C10_Witness ==
    /\ inv.op = "event"
    /\ receive_buffer.size = RXBUFSIZE
    /\ Len(channel) = 2
    /\ channel[1].ok
    /\ channel[1].event.tag = "Addr"
    /\ channel[2] = Err(ReceiveBufferFull)
    /\ pe = FALSE

----------------------------------------------------------------------------
\* C11: bridge read(dst) on a destination at least as long as the pending
\* bytes returns Ok(size), puts the bytes appended since the last successful
\* read, in append order, at the start of dst, touches nothing behind them and
\* empties the buffer (a read that follows returns Ok(0)); on a shorter
\* destination it returns Err(size) and changes neither dst nor the buffer.
C11_ReadRoundTrip ==
    inv.op = "read" =>
        IF inv.n >= Len(inv.log)
        THEN /\ inv.ok
             /\ inv.value = Len(inv.log)
             /\ SubSeq(inv.dst, 1, inv.value) = inv.log
             /\ \A i \in inv.value + 1 .. inv.n : inv.dst[i] = "old"
             /\ ReceiveBuffer_get_size(receive_buffer) = 0
             /\ Bridge_read(receive_buffer, Dst(0))[2]
             /\ Bridge_read(receive_buffer, Dst(0))[3] = 0
        ELSE /\ ~inv.ok
             /\ inv.value = Len(inv.log)
             /\ inv.dst = Dst(inv.n)
             /\ receive_buffer = inv.pre

\* a full buffer of two different bytes read back
C11_Witness ==
    /\ inv.op = "read"
    /\ inv.ok
    /\ inv.value = RXBUFSIZE
    /\ inv.log[1] # inv.log[2]
    /\ inv.dst = inv.log \o <<"old">>

----------------------------------------------------------------------------
\* C12

\* the items repeated next() yields until None
RECURSIVE Drain(_)
Drain(sb) ==
    LET r == SendBuffer_next(sb)
    IN IF r[2] = <<>> THEN <<>> ELSE r[2] \o Drain(r[1])

\* C12: write(src) into an empty buffer succeeds for a src of every length,
\* next() then yields src[..min(|src|, TXBUFSIZE)] and write has returned the
\* rest.  (The code panics when |src| > TXBUFSIZE.)
C12_WriteRoundTrip ==
    /\ inv.op = "sb_write_panic" => ~SendBuffer_is_empty(inv.pre)
    /\ inv.op = "sb_write" =>
          /\ Drain(send_buffer) = SubSeq(inv.src, 1, Min(Len(inv.src), TXBUFSIZE))
          /\ inv.remainder = SubSeq(inv.src, Min(Len(inv.src), TXBUFSIZE) + 1, Len(inv.src))

----------------------------------------------------------------------------
\* C13: n_read returns the number of pending bytes and does not fail.
\* (With no byte pending, read(&mut []) is Ok(0) and unwrap_err panics.)
C13_NReadReturnsPending ==
    inv.op = "n_read" =>
        /\ ~panicked
        /\ ~inv.ok
        /\ inv.value = ReceiveBuffer_get_size(receive_buffer)

----------------------------------------------------------------------------
\* C17 as claimed: reset() on an empty send buffer, drained ones included,
\* leaves bytes_sent(), is_empty() and the result of next() as they were, and
\* unlock_tx on unlocked TX leaves the interrupt-enable bits as they were.
C17_ResetOnEmptyIsNoOp ==
    /\ (inv.op = "sb_reset" /\ SendBuffer_is_empty(inv.pre))
          => /\ SendBuffer_bytes_sent(send_buffer) = SendBuffer_bytes_sent(inv.pre)
             /\ SendBuffer_is_empty(send_buffer) = SendBuffer_is_empty(inv.pre)
             /\ SendBuffer_next(send_buffer)[2] = SendBuffer_next(inv.pre)[2]
    /\ (inv.op = "unlock_tx" /\ inv.pre = <<TRUE, TRUE>>) => (itbufen /\ itevten)

\* C17 as amended: reset() on an empty send buffer leaves is_empty() true and
\* next() None, and a second reset() changes nothing; bytes_sent() becomes 0,
\* so it is left as it was only when pos was 0, not on a drained buffer;
\* unlock_tx on unlocked TX leaves the interrupt-enable bits as they were.
C17_ResetOnEmptyKeepsEmpty ==
    /\ (inv.op = "sb_reset" /\ SendBuffer_is_empty(inv.pre))
          => /\ SendBuffer_is_empty(send_buffer)
             /\ SendBuffer_next(send_buffer)[2] = <<>>
             /\ SendBuffer_next(inv.pre)[2] = <<>>
             /\ SendBuffer_bytes_sent(send_buffer) = 0
             /\ (SendBuffer_bytes_sent(send_buffer) = SendBuffer_bytes_sent(inv.pre))
                   <=> (inv.pre.pos = 0)
             /\ SendBuffer_reset(send_buffer) = send_buffer
    /\ (inv.op = "unlock_tx" /\ inv.pre = <<TRUE, TRUE>>) => (itbufen /\ itevten)

\* reset() of a drained buffer
C17_Witness ==
    /\ inv.op = "sb_reset"
    /\ inv.pre.pos = inv.pre.end
    /\ inv.pre.pos = TXBUFSIZE
    /\ inv.value = TXBUFSIZE
    /\ send_buffer.pos = 0

----------------------------------------------------------------------------
\* C20: after any sequence of write (into an empty buffer, of a block the
\* buffer can take), next and reset: 0 <= pos <= end <= TXBUFSIZE, next() is
\* None exactly when pos = end, the bytes next() will still yield are those at
\* [pos, end) of the last block written, and those it has yielded are the ones
\* before pos.
C20_SendBufferIndices ==
    /\ send_buffer.pos \in 0 .. TXBUFSIZE
    /\ send_buffer.end \in 0 .. TXBUFSIZE
    /\ send_buffer.pos <= send_buffer.end
    /\ (SendBuffer_next(send_buffer)[2] = <<>>) <=> (send_buffer.pos = send_buffer.end)
    /\ send_buffer.end = Len(txblock)
    /\ Drain(send_buffer) = SubSeq(txblock, send_buffer.pos + 1, send_buffer.end)
    /\ txyield = SubSeq(txblock, 1, send_buffer.pos)

\* half of a block of two different bytes has been yielded
C20_Witness ==
    /\ inv.op = "sb_next"
    /\ Len(txblock) = 2
    /\ txblock[1] # txblock[2]
    /\ send_buffer.pos = 1
    /\ txyield = <<txblock[1]>>

----------------------------------------------------------------------------
\* C14

Reasons ==
    {Protocol(e) : e \in ProtocolError} \cup {I2C(e) : e \in I2CError}
        \cup {ReceiveBufferFull}

\* what fail has to leave alone
Kept(c) ==
    <<c.state, c.history, c.events_history, c.send_buffer, c.receive_buffer,
      c.itbufen, c.itevten>>

\* fail applied to the bridge as it is
FailFrame ==
    \A reason \in Reasons :
        LET c == fail(Context, reason)
        IN /\ Kept(c) = Kept(Context)
           /\ c.pe = FALSE
           /\ IF Len(channel) < CHSIZE
              THEN c.channel = Append(channel, Err(reason)) /\ ~c.panicked
              ELSE c.channel = channel /\ c.panicked

\* a step of a handler whose only call into the bridge that acts is fail
OnlyFails ==
    /\ IsrStep
    /\ ~inv'.panicked
    /\ \/ /\ inv'.op = "event"
          /\ FirstEventError(inv') # NoError
          /\ inv'.sr1.addr => state \in TxStates
       \/ /\ inv'.op = "error"
          /\ ~(inv'.sr1.af /\ state \in TxStates)
          /\ \E f \in {"af"} \cup DOMAIN I2CErrorOf : inv'.sr1[f]

\* C14: fail, applied in any reachable state of the bridge with any reason,
\* clears PE and appends one Err to the channel and leaves the state, both
\* histories, both buffers and the interrupt-enable bits as they were; and a
\* handler invocation on the paced bus that only fails leaves them as they were.
C14_FailFrame ==
    /\ []FailFrame
    /\ [][OnlyFails =>
            /\ Kept(Context)' = Kept(Context)
            /\ pe' = FALSE
            /\ Len(inv'.emitted) = 1
            /\ channel' = Append(channel, inv'.emitted[1])
            /\ ~inv'.emitted[1].ok]_vars

\* after an address match during a transmission the state, the histories
\* and the unsent byte are still there
C14_Witness ==
    /\ inv.op = "event"
    /\ inv.emitted = <<Err(Protocol("AddrDuringTransmission"))>>
    /\ pe = FALSE
    /\ state = "TxRepeated"
    /\ history = <<"TxInitial", "TxRepeated">>
    /\ events_history = <<Addr(TRUE, FALSE)>>
    /\ send_buffer.pos = 1
    /\ send_buffer.end = 2

----------------------------------------------------------------------------
\* C15

\* the Err is the first entry the invocation tries to send
FailIsFirstSend(i) ==
    /\ FirstEventError(i) # NoError
    /\ i.sr1.addr => i.pre.state \in TxStates
    /\ ~(i.sr1.txe /\ FirstEventError(i) = Protocol("StopDuringTransmission"))

\* C15: the channel never holds more than CHSIZE entries and after a handler
\* it is what it was followed by what the handler sent; an invocation aborts
\* exactly when it sends into a channel holding CHSIZE entries, the channel then
\* holds those entries and the ones sent before the abort, and when the aborting
\* call is fail PE is 0.
C15_FullChannelAborts ==
    /\ Len(channel) <= CHSIZE
    /\ AfterIsr => channel = inv.pre.channel \o inv.emitted
    /\ (AfterIsr /\ inv.panicked) => (panicked /\ Len(channel) = CHSIZE)
    /\ (inv.op = "event" /\ LegalEventInvocation(inv))
          => LET due == OkAll(PrescribedEvents(inv))
                 room == CHSIZE - Len(inv.pre.channel)
             IN IF Len(due) > room
                THEN inv.panicked /\ inv.emitted = SubSeq(due, 1, room)
                ELSE ~inv.panicked
    /\ (inv.op = "event" /\ FailIsFirstSend(inv) /\ Len(inv.pre.channel) = CHSIZE)
          => /\ inv.panicked
             /\ channel = inv.pre.channel
             /\ pe = FALSE
    /\ (inv.op = "error" /\ Len(inv.pre.channel) = CHSIZE
          /\ \E f \in {"af"} \cup DOMAIN I2CErrorOf : inv.sr1[f])
          => /\ inv.panicked
             /\ channel = inv.pre.channel
             /\ ~(inv.sr1.af /\ inv.pre.state \in TxStates) => pe = FALSE

\* fail on a full channel: PE cleared, the program aborted, the channel as it was
C15_Witness ==
    /\ inv.op = "event"
    /\ inv.panicked
    /\ panicked
    /\ FailIsFirstSend(inv)
    /\ Len(inv.pre.channel) = CHSIZE
    /\ inv.pre.pe
    /\ pe = FALSE
    /\ channel = inv.pre.channel

----------------------------------------------------------------------------
----------------------------------------------------------------------------
\* C18, C19: the scenarios

\* every step of the scenario has been taken
ScenarioDone == master.todo = <<>> /\ taskpc = "run"

\* the scenario can go on: the master's next step can be taken, or the task
\* is to write or inside write, or listen has an entry to take
CanGoOn ==
    \/ master.todo = <<>>
    \/ StepEnabled(Head(master.todo))
    \/ WriteDue
    \/ taskpc = "write"
    \/ (channel # <<>> /\ ntask < TaskBound)

\* C18: S3 for every n in 1..RXBUFSIZE never aborts and never stalls; when it
\* is over the handlers have sent exactly Addr{tx=false}, Received{n, write=true},
\* Addr{tx=true}, TxEmpty{initial=true}, Sent{1}, Stop, listen() has returned
\* the entries before the ones still in the channel, and the state is Idle.
C18_WriteThenRead ==
    master.name = "S3" =>
        /\ ~panicked
        /\ CanGoOn
        /\ deq \o channel = enq
        /\ ScenarioDone =>
              /\ enq = OkAll(<<Addr(FALSE, master.gencall), Received(master.n, TRUE),
                               Addr(TRUE, master.gencall), TxEmpty(TRUE), Sent(1),
                               Stop>>)
              /\ state = "Idle"

\* S3 with a full receive buffer is over and every entry has been delivered
C18_Witness ==
    /\ master.name = "S3"
    /\ master.n = RXBUFSIZE
    /\ ScenarioDone
    /\ channel = <<>>
    /\ Len(deq) = 6
    /\ deq[2] = Ok(Received(RXBUFSIZE, TRUE))
    /\ deq[6] = Ok(Stop)
    /\ state = "Idle"

----------------------------------------------------------------------------
\* C21

\* write has just returned in a scenario whose writes answer TxEmpty
WriteReturned == master.answers /\ inv.op = "write"

\* the handler has just moved the first byte of the block in the send buffer
\* to the data register
FirstByteOut ==
    /\ inv.op = "event"
    /\ inv.pre.send_buffer.pos = 0
    /\ send_buffer.pos = 1
    /\ inv.popped = <<inv.pre.send_buffer.buf[1]>>
    /\ wire = Append(inv.pre.wire, inv.pre.send_buffer.buf[1])

\* write returns: it was called with TxEmpty emitted and TX locked
WriteReturns == master.answers /\ taskpc = "write" /\ taskpc' = "run"

\* C21: a write that answers TxEmpty is called with both interrupts disabled
\* and returns with both enabled; when it wrote a block that is not empty, and
\* enabled event interrupts are eventually serviced, the first byte of the
\* block is eventually written to the data register.
C21_WriteRearmsDataPath ==
    /\ [][WriteReturns => /\ txempty_pending /\ ~itevten /\ ~itbufen
                          /\ itevten' /\ itbufen']_vars
    /\ (WriteReturned /\ inv.src # <<>>) ~> FirstByteOut

\* the second block of S6: asked for on BTF with TxEmpty{initial=false},
\* written, and its first byte sent on
C21_Witness ==
    /\ master.name = "S6"
    /\ FirstByteOut
    /\ inv.pre.state = "TxRepeated"
    /\ inv.sr1.btf
    /\ Len(wire) = master.m + 1
    /\ \E i \in 1 .. Len(enq) : enq[i] = Ok(TxEmpty(FALSE))

----------------------------------------------------------------------------
\* C22

CountTxEmpty(entries) ==
    Cardinality({i \in 1 .. Len(entries) :
                    entries[i].ok /\ entries[i].event.tag = "TxEmpty"})

\* the writes that have returned: one for each TxEmpty dequeued, but for the
\* one the task is answering
WritesReturned ==
    CountTxEmpty(deq) - (IF taskpc \in {"answer", "write"} THEN 1 ELSE 0)

\* the TxEmpty emitted and not yet answered by a write
Outstanding == CountTxEmpty(enq) - WritesReturned

\* C22: with a task that calls write once for each TxEmpty it dequeues and at
\* no other time, at most one TxEmpty is outstanding, the send buffer is empty
\* when the task is to write and write never finds it holding bytes; in a
\* program that has not aborted both interrupts are disabled exactly while a
\* TxEmpty is outstanding; the event interrupt is disabled only by an invocation
\* that emits TxEmpty (or aborts emitting it) and enabled again only by the
\* return of write.
C22_OneTxEmptyOutstanding ==
    /\ [](/\ Outstanding \in {0, 1}
          /\ taskpc \in {"answer"} => SendBuffer_is_empty(send_buffer)
          /\ inv.op # "write_panic"
          /\ ~panicked => /\ (Outstanding = 1) <=> ~itevten
                          /\ ~itevten => ~itbufen)
    /\ [][/\ (itevten /\ ~itevten') => (IsrStep /\ (HasTxEmpty(inv'.emitted) \/ panicked'))
          /\ (IsrStep /\ HasTxEmpty(inv'.emitted)) => (~itevten' /\ ~itbufen')
          /\ (~itevten /\ itevten') => (taskpc = "write" /\ taskpc' = "run")]_vars

\* the second TxEmpty of a read transaction has been answered: the first
\* block drained, the handler asked again and locked, write unlocked
C22_Witness ==
    /\ mode = "task"
    /\ inv.op = "write"
    /\ inv.src # <<>>
    /\ state = "TxRepeated"
    /\ CountTxEmpty(enq) = 2
    /\ Outstanding = 0
    /\ itevten
    /\ itbufen
    /\ ~SendBuffer_is_empty(send_buffer)

----------------------------------------------------------------------------
\* C23: the read the task of the example makes for a Received{size} it has
\* dequeued returns Ok(size): the bytes of the write phase the event reports
\* and no others.
C23_ReadReturnsReported ==
    (mode = "task" /\ inv.op = "read")
        => /\ inv.ok
           /\ inv.value = inv.event.size

----------------------------------------------------------------------------
\* C24: with the task of the example, which writes only in answer to TxEmpty,
\* a byte goes to the data register only after a TxEmpty of the same
\* transaction (one emitted since the last address match), and the send buffer
\* is empty whenever the state is Idle.
C24_NoLeakAcrossTransactions ==
    mode = "task"
        => /\ (inv.op = "event" /\ inv.popped # <<>>) => txlog # <<>>
           /\ state = "Idle" => SendBuffer_is_empty(send_buffer)

----------------------------------------------------------------------------
\* C25

\* the STOP of a read transaction has just been handled: the state went from
\* Nack to Idle
ReadTransactionOver ==
    /\ inv.op = "event"
    /\ inv.sr1.stopf
    /\ inv.pre.state = "Nack"
    /\ state = "Idle"

\* C25: when the state has returned to Idle after a read transaction (NACK,
\* then STOP), the event interrupt and the buffer interrupt are both enabled.
C25_LockReleasedAtIdle ==
    ReadTransactionOver => (itevten /\ itbufen)

----------------------------------------------------------------------------
\* C26

\* C26: for every prior state, every filling of the two buffers and of the
\* channel and every combination of SR1 and SR2 flags, one invocation of the
\* event handler sends at most 4 entries, and an invocation that finds at
\* least 4 free slots in the channel does not abort.
C26_EventBurstAtMostFour ==
    inv.op = "event"
        => /\ Len(inv.emitted) <= 4
           /\ channel = inv.pre.channel \o inv.emitted
           /\ Len(inv.pre.channel) + 4 <= CHSIZE => ~inv.panicked

\* the bound is met: a repeated start and a STOP decoded in one invocation
\* after a write send Received, Addr, Received, Stop
C26_Witness ==
    /\ inv.op = "event"
    /\ inv.pre.state = "Rx"
    /\ inv.pre.channel = <<>>
    /\ ~inv.panicked
    /\ Len(inv.emitted) = 4
    /\ channel = inv.emitted

====
